---- MODULE Spec2Model ----
(***************************************************************************)
(* dmi-radar-history: the download/state tracker (app.py, state.py) and    *)
(* the day stacker (stacker.py) as state machines.                         *)
(*                                                                         *)
(* Instants are naturals (seconds since an epoch, scaled down); a day is   *)
(* DayLen consecutive instants.  A formatted timestamp is the pair         *)
(* <<day, second of day>>, so formatting and parsing are real conversions. *)
(***************************************************************************)
EXTENDS Integers, Sequences, FiniteSets, TLC

\* ---------------------------------------------------------------- bounds
\* instants of the stacker and of State.update are 0..MaxTime
MaxTime == 3
\* instants per calendar day
DayLen == 3
\* instants a capabilities document advertises are 0..MaxCapTime
MaxCapTime == 1
\* resolved tiles per layer: indices 0..NumTiles-1
NumTiles == 2
\* downloader processes started
MaxRuns == 2

\* Python's None where an instant is expected (instants are >= 0)
None == -1

Instants == 0..MaxTime
CapInstants == 0..MaxCapTime
TileIndices == 0..(NumTiles - 1)

\* layer names, in the order the capabilities document lists them
LayerOrder == <<"prectype", "other">>
Layers == {LayerOrder[i] : i \in 1..Len(LayerOrder)}

\* ------------------------------------------------------------- state.py
\* strftime("%Y-%m-%dT%H:%M:%SZ"): the date part and the time-of-day part
_format_time(value) == <<value \div DayLen, value % DayLen>>

\* fromisoformat of a "...Z" string: back to the instant
_parse_time(value) == value[1] * DayLen + value[2]

\* State.latest_for: dict.get(layer)
latest_for(st, layer) == IF layer \in DOMAIN st THEN st[layer] ELSE None

\* mutant of State.update: assigns without comparing
StateUpdate_Overwrite(st, layer, value) ==
    [l \in (DOMAIN st) \cup {layer} |-> IF l = layer THEN value ELSE st[l]]

\* State.update: keep the later of the current and the new instant
StateUpdate(st, layer, value) ==
    LET current == latest_for(st, layer)
    IN  IF current = None \/ value > current
        THEN [l \in (DOMAIN st) \cup {layer} |-> IF l = layer THEN value ELSE st[l]]
        ELSE st

\* State.to_dict
to_dict(st) == [l \in DOMAIN st |-> _format_time(st[l])]

\* the state file: absent, or a JSON object layer -> formatted instant
NoStateFile == [exists |-> FALSE, data |-> <<>>]

\* load_state: empty State when the file is absent
load_state(file) ==
    IF ~file.exists THEN <<>>
    ELSE [l \in DOMAIN file.data |-> _parse_time(file.data[l])]

\* save_state
save_state(st) == [exists |-> TRUE, data |-> to_dict(st)]

\* --------------------------------------------------------------- app.py
\* an ascending sequence of the elements of a set of integers
RECURSIVE SortAsc(_)
SortAsc(S) ==
    IF S = {} THEN <<>>
    ELSE LET m == CHOOSE x \in S : \A y \in S : x <= y
         IN  <<m>> \o SortAsc(S \ {m})

\* _filter_recent: cutoff = now - max_age_hours, None when no max age
_filter_recent(times, cut) ==
    IF cut = None THEN times
    ELSE SelectSeq(times, LAMBDA t : t >= cut)

\* a raw tile file <output>/<layer>/<instant>/tile_<index>_<bbox>.png
TileFile(layer, t, index) == <<layer, t, index>>

\* mutant of MissingTiles: every resolved tile, present or not
MissingTiles_All(dir, layer, t) == SortAsc(TileIndices)

\* _process_layer lines 63-69: resolved indices whose file is absent, ascending
MissingTiles(dir, layer, t) ==
    SortAsc({i \in TileIndices : TileFile(layer, t, i) \notin dir})

\* what urlopen gives back: an image, a 200 with another content type, or
\* an exception (transport error, HTTP error status)
Responses == {"image", "non_image", "error"}

VARIABLES
    last_times,     \* State.last_times of the running process (or of a bare State)
    state_file,     \* the persisted state.json
    data_dir,       \* the raw tile files on disk
    pc,             \* position of the downloader process
    dry_run,        \* args.dry_run
    layers,         \* parse_capabilities: layer name -> set of advertised instants
    cutoff,         \* now - max_age_hours, or None
    layer_pos,      \* main's position in `for layer in layers`
    times,          \* _process_layer: the instants still to visit
    last_saved,     \* _process_layer: state.latest_for(layer.name), read once
    time_value,     \* _process_layer: the instant being fetched
    missing_tiles,  \* _process_layer: tiles of time_value still to fetch
    calls,          \* the _download_tile calls of this process, in order
    prior,          \* the State as load_state returned it
    dir_before,     \* data_dir when the process started
    file_before,    \* state_file when the process started
    runs,           \* processes started so far
    last_call,      \* the last State.update call on a bare State, and the State before it
    manifest_file,  \* the stacker's manifest.json
    daily_dir,      \* the composite files on disk under the stacker's output directory
    prev_manifest,  \* manifest.json as the last stacker run found it
    daily_before,   \* daily_dir as the last stacker run found it
    stack_layers,   \* the --layers set of the last stacker run
    stack_runs,     \* stacker runs so far
    saved,          \* the composite files the last stacker run saved
    reran           \* the last stacker run found the input directory of the run before it

VARIABLES
    time_text,      \* wms: the text of a time Dimension/Extent handed to _parse_time_value
    parsed_times,   \* wms: what _parse_time_value did with it
    dimensions,     \* wms: the texts of the time Dimension/Extent elements of a Layer
    layer_times     \* wms: what parse_capabilities did with them (LayerInfo.times)

wms_vars == <<time_text, parsed_times, dimensions, layer_times>>

VARIABLES
    layer_bbox,     \* tiles: LayerInfo.bbox handed to resolve_tiles
    tile_config,    \* tiles: the TileConfig handed to resolve_tiles
    tile_requests,  \* tiles: what resolve_tiles returned
    grid_args,      \* tiles: the arguments of a _generate_tiles call
    grid_tiles      \* tiles: what _generate_tiles returned

tiles_vars == <<layer_bbox, tile_config, tile_requests, grid_args, grid_tiles>>

\* _stack_images: the frames at the paths in time order, the image at
\* base_path, and the returned pair
VARIABLES
    stack_paths,
    stack_base,
    stack_result

\* a frame a later run discovers alone for the same tile index and day, and
\* the pair _stack_images returns when that run folds it onto the composite
VARIABLES
    later_frame,
    folded

pixel_vars == <<stack_paths, stack_base, stack_result, later_frame, folded>>

pure_vars == <<wms_vars, tiles_vars, pixel_vars>>

stack_vars == <<manifest_file, daily_dir, prev_manifest, daily_before,
                stack_layers, stack_runs, saved, reran>>

vars == <<last_times, state_file, data_dir, pc, dry_run, layers, cutoff,
          layer_pos, times, last_saved, time_value, missing_tiles, calls,
          prior, dir_before, file_before, runs, last_call, manifest_file,
          daily_dir, prev_manifest, daily_before, stack_layers, stack_runs,
          saved, reran, pure_vars>>

\* --layers absent: layers is None
NoLayers == [given |-> FALSE, names |-> {}]

\* no manifest.json on disk (_load_existing_manifest returns None)
NoManifest == [exists |-> FALSE, layers |-> <<>>]

\* no update call made yet
NoCall == [layer |-> "", value |-> None, before |-> <<>>]

\* no process running: nothing in memory
Idle ==
    /\ pc = "idle"
    /\ last_times = <<>>
    /\ dry_run = FALSE
    /\ layers = [l \in Layers |-> {}]
    /\ cutoff = None
    /\ layer_pos = 0
    /\ times = <<>>
    /\ last_saved = None
    /\ time_value = None
    /\ missing_tiles = <<>>
    /\ calls = <<>>
    /\ prior = <<>>
    /\ dir_before = {}
    /\ file_before = NoStateFile

\* a function that was not called (yet)
NotCalled == [outcome |-> "not_called", times |-> <<>>]

\* no capabilities text is being parsed
WmsIdle ==
    /\ time_text = <<>>
    /\ parsed_times = NotCalled
    /\ dimensions = <<>>
    /\ layer_times = NotCalled

\* LayerInfo.bbox is None
NoBBox == [crs |-> "", minx |-> 0, miny |-> 0, maxx |-> 0, maxy |-> 0]

\* tiles.py lines 10-11
DEFAULT_TILE_WIDTH == 512
DEFAULT_TILE_HEIGHT == 512

\* TileConfig(): bboxes None is the empty tuple here, both are falsy
DefaultConfig ==
    [tile_width |-> DEFAULT_TILE_WIDTH, tile_height |-> DEFAULT_TILE_HEIGHT,
     resolution |-> None, bboxes |-> <<>>]

\* no _generate_tiles call
NoGrid == [bbox |-> NoBBox, tile_width |-> 0, tile_height |-> 0, resolution |-> 0]

\* a list of tiles not computed (yet); resolve_tiles and _generate_tiles
\* return at least one tile
NoTiles == <<>>

\* no tile is being resolved
TilesIdle ==
    /\ layer_bbox = NoBBox
    /\ tile_config = DefaultConfig
    /\ tile_requests = NoTiles
    /\ grid_args = NoGrid
    /\ grid_tiles = NoTiles

\* base_path is None
NoImage == <<>>

\* _stack_images was not called (yet)
NotStacked == [outcome |-> "not_called", output |-> NoImage, used_count |-> 0]

\* no image is being stacked
PixelsIdle ==
    /\ stack_paths = <<>>
    /\ stack_base = NoImage
    /\ stack_result = NotStacked
    /\ later_frame = NoImage
    /\ folded = NotStacked

PureInit ==
    /\ WmsIdle
    /\ TilesIdle
    /\ PixelsIdle

\* nothing on disk, no process running
FilesInit ==
    /\ Idle
    /\ state_file = NoStateFile
    /\ data_dir = {}
    /\ runs = 0
    /\ last_call = NoCall
    /\ manifest_file = NoManifest
    /\ daily_dir = {}
    /\ prev_manifest = NoManifest
    /\ daily_before = {}
    /\ stack_layers = NoLayers
    /\ stack_runs = 0
    /\ saved = {}
    /\ reran = FALSE

Init ==
    /\ FilesInit
    /\ PureInit

CurrentLayer == LayerOrder[layer_pos]

\* main lines 99-119: parse arguments, fetch capabilities, load the state
MainStart(d, caps, cut) ==
    /\ pc = "idle"
    /\ runs < MaxRuns
    /\ runs' = runs + 1
    /\ dry_run' = d
    /\ layers' = caps
    /\ cutoff' = cut
    /\ last_times' = load_state(state_file)
    /\ prior' = load_state(state_file)
    /\ dir_before' = data_dir
    /\ file_before' = state_file
    /\ layer_pos' = 1
    /\ pc' = "main"
    /\ calls' = <<>>
    /\ UNCHANGED <<state_file, data_dir, times, last_saved, time_value,
                   missing_tiles, last_call>>
    /\ UNCHANGED stack_vars
    /\ UNCHANGED pure_vars

\* main lines 121-123 and _process_layer lines 54-57: skip a layer without
\* times, else enter _process_layer
MainNextLayer ==
    /\ pc = "main"
    /\ layer_pos <= Len(LayerOrder)
    /\ IF layers[CurrentLayer] = {}
       THEN /\ layer_pos' = layer_pos + 1
            /\ UNCHANGED <<pc, times, last_saved>>
       ELSE /\ times' = _filter_recent(SortAsc(layers[CurrentLayer]), cutoff)
            /\ last_saved' = latest_for(last_times, CurrentLayer)
            /\ pc' = "times"
            /\ UNCHANGED layer_pos
    /\ UNCHANGED <<last_times, state_file, data_dir, dry_run, layers, cutoff,
                   time_value, missing_tiles, calls, prior, dir_before,
                   file_before, runs, last_call>>
    /\ UNCHANGED stack_vars
    /\ UNCHANGED pure_vars

\* _process_layer lines 58-84: one pass of the loop up to the first fetch
ProcessTime ==
    /\ pc = "times"
    /\ times /= <<>>
    /\ LET t == Head(times)
           missing == MissingTiles(data_dir, CurrentLayer, t)
       IN  IF last_saved /= None /\ t <= last_saved
           THEN /\ times' = Tail(times)
                /\ UNCHANGED <<last_times, pc, time_value, missing_tiles>>
           ELSE IF missing = <<>>
           THEN /\ last_times' = StateUpdate(last_times, CurrentLayer, t)
                /\ times' = Tail(times)
                /\ UNCHANGED <<pc, time_value, missing_tiles>>
           ELSE IF dry_run
           THEN /\ times' = Tail(times)
                /\ UNCHANGED <<last_times, pc, time_value, missing_tiles>>
           ELSE /\ time_value' = t
                /\ missing_tiles' = missing
                /\ pc' = "fetch"
                /\ UNCHANGED <<last_times, times>>
    /\ UNCHANGED <<state_file, data_dir, dry_run, layers, cutoff, layer_pos,
                   last_saved, calls, prior, dir_before, file_before, runs,
                   last_call>>
    /\ UNCHANGED stack_vars
    /\ UNCHANGED pure_vars

\* _process_layer returns when the loop is exhausted
ProcessLayerReturn ==
    /\ pc = "times"
    /\ times = <<>>
    /\ pc' = "main"
    /\ layer_pos' = layer_pos + 1
    /\ UNCHANGED <<last_times, state_file, data_dir, dry_run, layers, cutoff,
                   times, last_saved, time_value, missing_tiles, calls, prior,
                   dir_before, file_before, runs, last_call>>
    /\ UNCHANGED stack_vars
    /\ UNCHANGED pure_vars

\* _download_tile: urlopen raises, or the body is written to the destination
\* whatever the response's content type
_download_tile(dir, destination, response) ==
    IF response = "error"
    THEN [raised |-> TRUE, dir |-> dir]
    ELSE [raised |-> FALSE, dir |-> dir \cup {destination}]

\* mutant of DownloadTile: a failed fetch is logged and the loop goes on
DownloadTile_CatchAndContinue(response) ==
    /\ pc = "fetch"
    /\ missing_tiles /= <<>>
    /\ LET index == Head(missing_tiles)
           target == TileFile(CurrentLayer, time_value, index)
           res == _download_tile(data_dir, target, response)
       IN  /\ calls' = Append(calls, [layer |-> CurrentLayer, time |-> time_value,
                                      index |-> index, response |-> response])
           /\ data_dir' = res.dir
           /\ IF res.raised
              THEN /\ pc' = "times"
                   /\ times' = Tail(times)
                   /\ missing_tiles' = <<>>
              ELSE /\ missing_tiles' = Tail(missing_tiles)
                   /\ UNCHANGED <<pc, times>>
    /\ UNCHANGED <<last_times, state_file, dry_run, layers, cutoff, layer_pos,
                   last_saved, time_value, prior, dir_before, file_before,
                   runs, last_call>>
    /\ UNCHANGED stack_vars
    /\ UNCHANGED pure_vars

\* _process_layer lines 85-95: fetch the next missing tile; an exception of
\* _download_tile is caught nowhere and ends the process
DownloadTile(response) ==
    /\ pc = "fetch"
    /\ missing_tiles /= <<>>
    /\ LET index == Head(missing_tiles)
           target == TileFile(CurrentLayer, time_value, index)
           res == _download_tile(data_dir, target, response)
       IN  /\ calls' = Append(calls, [layer |-> CurrentLayer, time |-> time_value,
                                      index |-> index, response |-> response])
           /\ data_dir' = res.dir
           /\ IF res.raised
              THEN /\ pc' = "crashed"
                   /\ UNCHANGED missing_tiles
              ELSE /\ missing_tiles' = Tail(missing_tiles)
                   /\ UNCHANGED pc
    /\ UNCHANGED <<last_times, state_file, dry_run, layers, cutoff, layer_pos,
                   times, last_saved, time_value, prior, dir_before,
                   file_before, runs, last_call>>
    /\ UNCHANGED stack_vars
    /\ UNCHANGED pure_vars

\* _process_layer line 96: every missing tile fetched, advance the watermark
InstantComplete ==
    /\ pc = "fetch"
    /\ missing_tiles = <<>>
    /\ last_times' = StateUpdate(last_times, CurrentLayer, time_value)
    /\ times' = Tail(times)
    /\ pc' = "times"
    /\ UNCHANGED <<state_file, data_dir, dry_run, layers, cutoff, layer_pos,
                   last_saved, time_value, missing_tiles, calls, prior,
                   dir_before, file_before, runs, last_call>>
    /\ UNCHANGED stack_vars
    /\ UNCHANGED pure_vars

\* mutant of MainFinish: the state is saved in dry-run mode too
MainFinish_AlwaysSave ==
    /\ pc = "main"
    /\ layer_pos > Len(LayerOrder)
    /\ state_file' = save_state(last_times)
    /\ pc' = "done"
    /\ UNCHANGED <<last_times, data_dir, dry_run, layers, cutoff, layer_pos,
                   times, last_saved, time_value, missing_tiles, calls, prior,
                   dir_before, file_before, runs, last_call>>
    /\ UNCHANGED stack_vars
    /\ UNCHANGED pure_vars

\* main lines 136-138: save the state unless dry-run, return 0
MainFinish ==
    /\ pc = "main"
    /\ layer_pos > Len(LayerOrder)
    /\ state_file' = IF dry_run THEN state_file ELSE save_state(last_times)
    /\ pc' = "done"
    /\ UNCHANGED <<last_times, data_dir, dry_run, layers, cutoff, layer_pos,
                   times, last_saved, time_value, missing_tiles, calls, prior,
                   dir_before, file_before, runs, last_call>>
    /\ UNCHANGED stack_vars
    /\ UNCHANGED pure_vars

\* the process ends (return 0 or an uncaught exception): its memory is gone,
\* the files stay
Exit ==
    /\ pc \in {"done", "crashed"}
    /\ pc' = "idle"
    /\ last_times' = <<>>
    /\ dry_run' = FALSE
    /\ layers' = [l \in Layers |-> {}]
    /\ cutoff' = None
    /\ layer_pos' = 0
    /\ times' = <<>>
    /\ last_saved' = None
    /\ time_value' = None
    /\ missing_tiles' = <<>>
    /\ calls' = <<>>
    /\ prior' = <<>>
    /\ dir_before' = {}
    /\ file_before' = NoStateFile
    /\ UNCHANGED <<state_file, data_dir, runs, last_call>>
    /\ UNCHANGED stack_vars
    /\ UNCHANGED pure_vars

DlNext ==
    \/ \E d \in BOOLEAN, caps \in [Layers -> SUBSET CapInstants],
          cut \in {None} \cup CapInstants : MainStart(d, caps, cut)
    \/ MainNextLayer
    \/ ProcessTime
    \/ ProcessLayerReturn
    \/ \E response \in Responses : DownloadTile(response)
    \/ InstantComplete
    \/ MainFinish
    \/ Exit

\* the downloader, run MaxRuns times over the same output directory
Spec == Init /\ [][DlNext]_vars

\* a bare State object receiving update calls
Update(layer, value) ==
    /\ last_times' = StateUpdate(last_times, layer, value)
    /\ last_call' = [layer |-> layer, value |-> value, before |-> last_times]
    /\ UNCHANGED <<state_file, data_dir, pc, dry_run, layers, cutoff,
                   layer_pos, times, last_saved, time_value, missing_tiles,
                   calls, prior, dir_before, file_before, runs>>
    /\ UNCHANGED stack_vars
    /\ UNCHANGED pure_vars

StateNext == \E layer \in Layers, value \in Instants : Update(layer, value)

SpecState == Init /\ [][StateNext]_vars

\* ----------------------------------------------------------- stacker.py
\* raw tile files a stacker run discovers at most
MaxFrames == 2
\* stacker runs
MaxStackRuns == 2
\* composite files removed from the output directory by hand
MaxRemovals == 1
\* pixel size of every raw frame (all frames share one size)
FrameWidth == 2
FrameHeight == 2

\* layer names in Python's string order
SortedNames == <<"other", "prectype">>
NameRank(name) == CHOOSE i \in 1..Len(SortedNames) : SortedNames[i] = name

\* the raw tile files that can lie under the input directory
RawFiles == {TileFile(l, t, i) : l \in Layers, t \in Instants, i \in TileIndices}

\* time_value.date()
DateOf(t) == t \div DayLen

\* date.isoformat(): "YYYY-MM-DD"
isoformat(day) == <<day>>

\* strftime("%Y-%m-%dT%H:%M:%SZ") of build_day_stacks
ManifestTime(t) == <<t \div DayLen, t % DayLen>>

\* _parse_manifest_time: strptime of the same format
_parse_manifest_time(value) == value[1] * DayLen + value[2]

\* the elements of a sequence
Range(seq) == {seq[k] : k \in 1..Len(seq)}

\* list.sort(key=...) on <<key, item>> pairs: stable, ascending by the integer key
RECURSIVE InsertPair(_, _)
InsertPair(sorted, x) ==
    IF sorted = <<>> THEN <<x>>
    ELSE IF x[1] < Head(sorted)[1]
         THEN <<x>> \o sorted
         ELSE <<Head(sorted)>> \o InsertPair(Tail(sorted), x)

RECURSIVE SortPairs(_)
SortPairs(pairs) ==
    IF pairs = <<>> THEN <<>>
    ELSE InsertPair(SortPairs(SubSeq(pairs, 1, Len(pairs) - 1)), pairs[Len(pairs)])

\* the order of two "YYYY-MM-DD" strings is the order of their days
DateKey(day_entry) == day_entry.date[1]
IndexKey(tile) == tile.index

\* layer_entry["days"].sort(key=lambda item: item["date"])
SortDays(seq) ==
    LET sorted == SortPairs([k \in 1..Len(seq) |-> <<DateKey(seq[k]), seq[k]>>])
    IN  [k \in 1..Len(sorted) |-> sorted[k][2]]

\* day_entry["tiles"].sort(key=lambda item: item["index"])
SortTiles(seq) ==
    LET sorted == SortPairs([k \in 1..Len(seq) |-> <<IndexKey(seq[k]), seq[k]>>])
    IN  [k \in 1..Len(sorted) |-> sorted[k][2]]

\* _iter_layer_dirs / collect_day_tiles: the discovered tiles, restricted to
\* the layer set when one is given and not empty
collect_day_tiles(input_dir, lyrs) ==
    {f \in input_dir : ~(lyrs.given /\ lyrs.names /= {}) \/ f[1] \in lyrs.names}

\* the nested dict layer -> day -> index -> [(time, path)] of collect_day_tiles
TileLayers(tiles) == {f[1] : f \in tiles}
TileDays(tiles, layer) == {DateOf(f[2]) : f \in {g \in tiles : g[1] = layer}}
DayTiles(tiles, layer, day) == {f \in tiles : f[1] = layer /\ DateOf(f[2]) = day}
DayIndices(tiles, layer, day) == {f[3] : f \in DayTiles(tiles, layer, day)}
\* sorted(day_tiles[index], key=time): the instants of the frames of one index
Entries(tiles, layer, day, index) ==
    SortAsc({f[2] : f \in {g \in DayTiles(tiles, layer, day) : g[3] = index}})

\* mutant of _filter_manifest_layers: the loaded manifest is left as it is
FilterManifestLayers_KeepAll(manifest, lyrs) == manifest

\* _filter_manifest_layers
_filter_manifest_layers(manifest, lyrs) ==
    IF ~manifest.exists \/ ~lyrs.given THEN manifest
    ELSE [exists |-> TRUE,
          layers |-> SelectSeq(manifest.layers, LAMBDA layer : layer.name \in lyrs.names)]

\* a dict built from <<key, value>> pairs: one entry per key, in the order of
\* the keys' first occurrence, holding the last value given for the key
RECURSIVE DictPairs(_)
DictPairs(pairs) ==
    IF pairs = <<>> THEN <<>>
    ELSE LET last == pairs[Len(pairs)]
             d == DictPairs(SubSeq(pairs, 1, Len(pairs) - 1))
         IN  IF \E k \in 1..Len(d) : d[k][1] = last[1]
             THEN [k \in 1..Len(d) |-> IF d[k][1] = last[1] THEN last ELSE d[k]]
             ELSE Append(d, last)

DayDate(day_entry) == day_entry.date
LayerName(layer) == layer.name

\* {day.get("date"): day for day in layer.get("days", [])}, as its values
DaysDict(seq) ==
    LET d == DictPairs([k \in 1..Len(seq) |-> <<DayDate(seq[k]), seq[k]>>])
    IN  [k \in 1..Len(d) |-> d[k][2]]

\* indexed[layer_name] = days for each layer of the manifest, as its values
LayersDict(seq) ==
    LET d == DictPairs([k \in 1..Len(seq) |-> <<LayerName(seq[k]), seq[k]>>])
    IN  [k \in 1..Len(d) |-> d[k][2]]

\* _index_existing_manifest: the layer names of the existing manifest
ExistingLayers(manifest) ==
    IF ~manifest.exists THEN {} ELSE {layer.name : layer \in Range(manifest.layers)}

\* _index_existing_manifest: existing_index.get(layer, {}), as the list of
\* its values
ExistingDays(manifest, layer) ==
    IF layer \notin ExistingLayers(manifest) THEN <<>>
    ELSE LET entry == CHOOSE e \in Range(LayersDict(manifest.layers)) : e.name = layer
         IN  DaysDict(entry.days)

\* existing_days.get(date) when the day is absent
NoDay == [date |-> <<>>, tiles |-> <<>>, times |-> <<>>]

ExistingDay(existing_days, date) ==
    IF \E k \in 1..Len(existing_days) : existing_days[k].date = date
    THEN existing_days[CHOOSE k \in 1..Len(existing_days) : existing_days[k].date = date]
    ELSE NoDay

\* no existing tile entry for an index
NoTile == [index |-> None, path |-> <<>>, width |-> 0, height |-> 0, count |-> 0]

\* build_day_stacks lines 218-222: the first existing tile with the index
FirstTile(day_entry, index) ==
    IF \E k \in 1..Len(day_entry.tiles) : day_entry.tiles[k].index = index
    THEN day_entry.tiles[CHOOSE k \in 1..Len(day_entry.tiles) :
            /\ day_entry.tiles[k].index = index
            /\ \A j \in 1..(k - 1) : day_entry.tiles[j].index /= index]
    ELSE NoTile

\* a composite file <output>/<layer>/<date>/tile_<index>.png (also its
\* path relative to the output directory)
OutputPath(layer, day, index) == <<layer, isoformat(day), index>>

\* _stack_images: every frame of paths is folded in (the frames share one
\* size), onto the base image when there is one
_stack_images(paths, has_base) ==
    [used_count |-> Len(paths), width |-> FrameWidth, height |-> FrameHeight,
     on_base |-> has_base]

\* mutant of StackTile: the recorded count is not carried forward
StackTile_CountNewOnly(tiles, layer, day, index, existing_day, include_existing, out) ==
    LET paths == Entries(tiles, layer, day, index)
        stacked == _stack_images(paths, FALSE)
    IN  [index |-> index, path |-> OutputPath(layer, day, index),
         width |-> stacked.width, height |-> stacked.height,
         count |-> stacked.used_count]

\* build_day_stacks lines 212-240: the manifest entry of one discovered index
StackTile(tiles, layer, day, index, existing_day, include_existing, out) ==
    LET paths == Entries(tiles, layer, day, index)
        found == IF include_existing /\ existing_day /= NoDay
                 THEN FirstTile(existing_day, index) ELSE NoTile
        existing_count == found.count
        stacked == _stack_images(paths, found /= NoTile /\ found.path \in out)
    IN  [index |-> index, path |-> OutputPath(layer, day, index),
         width |-> stacked.width, height |-> stacked.height,
         count |-> existing_count + stacked.used_count]

\* build_day_stacks lines 201-207
ExistingTimes(existing_day) == {_parse_manifest_time(v) : v \in Range(existing_day.times)}
IncomingTimes(tiles, layer, day) == {f[2] : f \in DayTiles(tiles, layer, day)}

\* mutant of MergedTimes: the recorded instants are left out
MergedTimes_IncomingOnly(incoming_times, existing_times) == SortAsc(incoming_times)

\* build_day_stacks line 208: sorted(incoming_times | existing_times)
MergedTimes(incoming_times, existing_times) ==
    SortAsc(incoming_times \cup existing_times)

\* mutant of CarriedTiles: no existing tile entry is copied
CarriedTiles_None(existing_day, new_indices) == <<>>

\* build_day_stacks lines 241-244: the existing tile entries whose index was
\* not discovered, in their recorded order
CarriedTiles(existing_day, new_indices) ==
    SelectSeq(existing_day.tiles, LAMBDA tile : tile.index \notin new_indices)

\* build_day_stacks lines 193-246: the merged entry of one discovered day
MergeDay(tiles, layer, day, existing_days, out) ==
    LET existing_day == ExistingDay(existing_days, isoformat(day))
        incoming_times == IncomingTimes(tiles, layer, day)
        existing_times == ExistingTimes(existing_day)
        merged_times == MergedTimes(incoming_times, existing_times)
        include_existing == (existing_times \ incoming_times) /= {}
        new_indices == DayIndices(tiles, layer, day)
        order == SortAsc(new_indices)
        stacked == [k \in 1..Len(order) |->
                      StackTile(tiles, layer, day, order[k], existing_day,
                                include_existing, out)]
        carried == CarriedTiles(existing_day, new_indices)
    IN  [date |-> isoformat(day),
         tiles |-> SortTiles(stacked \o carried),
         times |-> [k \in 1..Len(merged_times) |-> ManifestTime(merged_times[k])]]

\* mutant of CarriedDays: no day is taken over from the existing manifest
CarriedDays_None(existing_days, new_day_dates) == <<>>

\* build_day_stacks lines 247-249: the existing days of the layer that were
\* not discovered again
CarriedDays(existing_days, new_day_dates) ==
    SelectSeq(existing_days, LAMBDA d : d.date \notin new_day_dates)

\* mutant of MergeLayer: the final sort of the days is left out
MergeLayer_Unsorted(tiles, layer, existing, out) ==
    LET existing_days == ExistingDays(existing, layer)
        new_days == SortAsc(TileDays(tiles, layer))
        new_day_dates == {isoformat(day) : day \in TileDays(tiles, layer)}
        merged == [k \in 1..Len(new_days) |->
                     MergeDay(tiles, layer, new_days[k], existing_days, out)]
        carried == SelectSeq(existing_days, LAMBDA d : d.date \notin new_day_dates)
    IN  [name |-> layer, days |-> merged \o carried]

\* build_day_stacks lines 189-251: the entry of one layer
MergeLayer(tiles, layer, existing, out) ==
    LET existing_days == ExistingDays(existing, layer)
        new_days == SortAsc(TileDays(tiles, layer))
        new_day_dates == {isoformat(day) : day \in TileDays(tiles, layer)}
        merged == [k \in 1..Len(new_days) |->
                     MergeDay(tiles, layer, new_days[k], existing_days, out)]
        carried == CarriedDays(existing_days, new_day_dates)
    IN  [name |-> layer, days |-> SortDays(merged \o carried)]

\* sorted(all_layers)
RECURSIVE SortNames(_)
SortNames(S) ==
    IF S = {} THEN <<>>
    ELSE LET m == CHOOSE x \in S : \A y \in S : NameRank(x) <= NameRank(y)
         IN  <<m>> \o SortNames(S \ {m})

\* mutant of EmptyDiscovery: nothing is taken over from the existing manifest
EmptyDiscovery_NoShortcut(existing) == <<>>

\* build_day_stacks lines 180-185: the layers returned when no tile was
\* discovered
EmptyDiscovery(existing) == IF existing.exists THEN existing.layers ELSE <<>>

\* build_day_stacks: the returned manifest's layers, the output directory
\* after the composites were saved, and the composites saved
build_day_stacks(input_dir, out, lyrs, manifest) ==
    LET tiles == collect_day_tiles(input_dir, lyrs)
        existing == _filter_manifest_layers(manifest, lyrs)
        all_layers == SortNames(TileLayers(tiles) \cup ExistingLayers(existing))
        written == {OutputPath(f[1], DateOf(f[2]), f[3]) : f \in tiles}
    IN  IF tiles = {}
        THEN [layers |-> EmptyDiscovery(existing), out |-> out, saved |-> {}]
        ELSE [layers |-> [k \in 1..Len(all_layers) |->
                            MergeLayer(tiles, all_layers[k], existing, out)],
              out |-> out \cup written, saved |-> written]

\* write_manifest
write_manifest(manifest_layers) == [exists |-> TRUE, layers |-> manifest_layers]

\* stacker main: one run over the input directory as it is found, merging
\* against the manifest of the output directory
StackerMain(input_dir, lyrs) ==
    /\ pc = "idle"
    /\ stack_runs < MaxStackRuns
    /\ stack_runs' = stack_runs + 1
    /\ LET res == build_day_stacks(input_dir, daily_dir, lyrs, manifest_file)
       IN  /\ manifest_file' = write_manifest(res.layers)
           /\ daily_dir' = res.out
           /\ saved' = res.saved
    /\ prev_manifest' = manifest_file
    /\ daily_before' = daily_dir
    /\ stack_layers' = lyrs
    /\ data_dir' = input_dir
    /\ reran' = FALSE
    /\ UNCHANGED <<last_times, state_file, pc, dry_run, layers, cutoff,
                   layer_pos, times, last_saved, time_value, missing_tiles,
                   calls, prior, dir_before, file_before, runs, last_call>>
    /\ UNCHANGED pure_vars

\* a composite file is removed from the output directory between two runs
\* (at most MaxRemovals of them after a run)
RemoveComposite(path) ==
    /\ path \in daily_dir
    /\ 0 < stack_runs /\ stack_runs < MaxStackRuns
    /\ LET left == build_day_stacks(data_dir, daily_before, stack_layers, prev_manifest).out
       IN  Cardinality(left \ daily_dir) < MaxRemovals
    /\ daily_dir' = daily_dir \ {path}
    /\ UNCHANGED <<last_times, state_file, data_dir, pc, dry_run, layers,
                   cutoff, layer_pos, times, last_saved, time_value,
                   missing_tiles, calls, prior, dir_before, file_before, runs,
                   last_call, manifest_file, prev_manifest, daily_before,
                   stack_layers, stack_runs, saved, reran>>
    /\ UNCHANGED pure_vars

\* the composite files a manifest records
ManifestPaths(manifest) ==
    UNION {UNION {{t.path : t \in Range(d.tiles)} : d \in Range(e.days)} :
              e \in Range(manifest.layers)}

\* stacker main once more, with the input directory, the layers and the
\* output directory as the run before left them, merging against the
\* manifest that run wrote (the last run of a behaviour)
Rerun ==
    /\ pc = "idle"
    /\ 1 <= stack_runs /\ stack_runs <= MaxStackRuns
    /\ ~reran
    /\ ManifestPaths(manifest_file) \subseteq daily_dir
    /\ LET res == build_day_stacks(data_dir, daily_dir, stack_layers, manifest_file)
       IN  /\ manifest_file' = write_manifest(res.layers)
           /\ daily_dir' = res.out
           /\ saved' = res.saved
    /\ prev_manifest' = manifest_file
    /\ daily_before' = daily_dir
    /\ reran' = TRUE
    /\ stack_runs' = MaxStackRuns + 1
    /\ UNCHANGED <<stack_layers, data_dir>>
    /\ UNCHANGED <<last_times, state_file, pc, dry_run, layers, cutoff,
                   layer_pos, times, last_saved, time_value, missing_tiles,
                   calls, prior, dir_before, file_before, runs, last_call>>
    /\ UNCHANGED pure_vars

\* the sets of at most n raw tile files
RECURSIVE DirsUpTo(_)
DirsUpTo(n) ==
    IF n = 0 THEN {{}}
    ELSE LET smaller == DirsUpTo(n - 1)
         IN  smaller \cup {d \cup {f} : d \in smaller, f \in RawFiles}

\* the input directories a run can find: at most MaxFrames raw tile files
InputDirs == DirsUpTo(MaxFrames)

\* the composite files the output directory can hold
OutputPaths == {OutputPath(f[1], DateOf(f[2]), f[3]) : f \in RawFiles}

\* the --layers sets: absent, or a non-empty set of names
LayerSets == {NoLayers} \cup {[given |-> TRUE, names |-> {l}] : l \in Layers}

StackNext ==
    \/ \E input_dir \in InputDirs, lyrs \in LayerSets : StackerMain(input_dir, lyrs)
    \/ \E path \in OutputPaths : RemoveComposite(path)

\* the stacker, run MaxStackRuns times over one output directory
SpecStack == Init /\ [][StackNext]_vars

RerunNext ==
    \/ StackNext
    \/ Rerun

\* the stacker runs, each of which can be followed by a re-run
SpecRerun == Init /\ [][RerunNext]_vars

\* max(a, b)
Max(a, b) == IF a >= b THEN a ELSE b

\* --------------------------------------------------------------- wms.py
\* instants a capabilities text names: multiples of WmsStep seconds up to
\* MaxWmsTime of them
MaxWmsTime == 4
\* time Dimension/Extent elements of one Layer
MaxDims == 2
WmsStep == 1800
WmsInstants == {k * WmsStep : k \in 0..MaxWmsTime}

\* dt.timedelta(days=, hours=, minutes=, seconds=) in seconds
SecondsPerMinute == 60
SecondsPerHour == 3600
SecondsPerDay == 86400
DaysPerWeek == 7

\* A time text is a sequence of pieces: a timestamp ("2025-01-01T00:00:00Z",
\* with or without the Z), a period (its characters), "/" and ",".
TimeText(t, zone) == [kind |-> "time", instant |-> t, zone |-> zone]
PeriodText(chars) == [kind |-> "period", chars |-> chars]
Slash == [kind |-> "slash"]
Comma == [kind |-> "comma"]

\* str.split(sep) on a sequence of pieces: the runs between separators
RECURSIVE SplitAt(_, _)
SplitAt(value, sep) ==
    IF \A k \in 1..Len(value) : value[k] /= sep THEN <<value>>
    ELSE LET k == CHOOSE j \in 1..Len(value) :
                      value[j] = sep /\ \A i \in 1..(j - 1) : value[i] /= sep
         IN  <<SubSeq(value, 1, k - 1)>> \o SplitAt(SubSeq(value, k + 1, Len(value)), sep)

\* the characters of a part, as far as _parse_duration looks at them: a
\* timestamp does not start with "P"
RECURSIVE PartChars(_)
PartChars(part) ==
    IF part = <<>> THEN <<>>
    ELSE (CASE Head(part).kind = "period" -> Head(part).chars
            [] Head(part).kind = "time" -> <<"2">>
            [] Head(part).kind = "comma" -> <<",">>
            [] OTHER -> <<"/">>) \o PartChars(Tail(part))

\* wms._parse_time: fromisoformat of one timestamp ("Z" or no offset: UTC);
\* anything else raises ValueError
WmsParseTime(part) ==
    IF Len(part) = 1 /\ part[1].kind = "time"
    THEN [ok |-> TRUE, instant |-> part[1].instant]
    ELSE [ok |-> FALSE, instant |-> None]

DigitChars == <<"0", "1", "2", "3", "4", "5", "6", "7", "8", "9">>
IsDigit(c) == \E i \in 1..Len(DigitChars) : DigitChars[i] = c
DigitValue(c) == (CHOOSE i \in 1..Len(DigitChars) : DigitChars[i] = c) - 1

\* int(number) of a string of digits
RECURSIVE ToInt(_)
ToInt(number) ==
    IF number = <<>> THEN 0
    ELSE 10 * ToInt(SubSeq(number, 1, Len(number) - 1)) + DigitValue(number[Len(number)])

\* parse_segment's loop: digits are collected, the designator ends the scan,
\* any other character empties the number
RECURSIVE ScanSegment(_, _, _)
ScanSegment(segment, designator, number) ==
    IF segment = <<>> THEN number
    ELSE IF IsDigit(Head(segment))
         THEN ScanSegment(Tail(segment), designator, Append(number, Head(segment)))
         ELSE IF Head(segment) = designator THEN number
              ELSE ScanSegment(Tail(segment), designator, <<>>)

\* _parse_duration.parse_segment
parse_segment(segment, designator) ==
    IF \A k \in 1..Len(segment) : segment[k] /= designator THEN 0
    ELSE ToInt(ScanSegment(segment, designator, <<>>))

\* _parse_duration: the timedelta in seconds, None when the text does not
\* start with "P" or has a year or month component
_parse_duration(value) ==
    IF value = <<>> \/ Head(value) /= "P" THEN None
    ELSE LET rest == Tail(value)
             has_t == \E k \in 1..Len(rest) : rest[k] = "T"
             cut == IF has_t
                    THEN CHOOSE k \in 1..Len(rest) :
                            rest[k] = "T" /\ \A i \in 1..(k - 1) : rest[i] /= "T"
                    ELSE 0
             date_part == IF has_t THEN SubSeq(rest, 1, cut - 1) ELSE rest
             time_part == IF has_t THEN SubSeq(rest, cut + 1, Len(rest)) ELSE <<>>
             years == parse_segment(date_part, "Y")
             months == parse_segment(date_part, "M")
             weeks == parse_segment(date_part, "W")
             days == parse_segment(date_part, "D")
             hours == parse_segment(time_part, "H")
             minutes == parse_segment(time_part, "M")
             seconds == parse_segment(time_part, "S")
         IN  IF years /= 0 \/ months /= 0 THEN None
             ELSE (days + weeks * DaysPerWeek) * SecondsPerDay
                  + hours * SecondsPerHour + minutes * SecondsPerMinute + seconds

\* _parse_time_value lines 56-61: start, start + step, ... while <= end
RECURSIVE Expand(_, _, _)
Expand(current, end, step) ==
    IF current > end THEN <<>>
    ELSE <<current>> \o Expand(current + step, end, step)

\* what a call does: it returns a list, raises ValueError, or never returns
Returned(list) == [outcome |-> "returned", times |-> list]
Raised == [outcome |-> "raised", times |-> <<>>]
NoReturn == [outcome |-> "no_return", times |-> <<>>]

\* _parse_time_value lines 62-68: the comma branch
RECURSIVE ParseItems(_)
ParseItems(items) ==
    IF items = <<>> THEN Returned(<<>>)
    ELSE IF Head(items) = <<>> THEN ParseItems(Tail(items))
         ELSE LET first == WmsParseTime(Head(items))
                  rest == ParseItems(Tail(items))
              IN  IF ~first.ok THEN Raised
                  ELSE IF rest.outcome /= "returned" THEN rest
                       ELSE Returned(<<first.instant>> \o rest.times)

\* mutant of IntervalTimes: the loop stops before end
IntervalTimes_ExclusiveEnd(parts) ==
    LET start == WmsParseTime(parts[1])
        end == WmsParseTime(parts[2])
        step == _parse_duration(PartChars(parts[3]))
    IN  IF ~start.ok \/ ~end.ok THEN Raised
        ELSE IF step = None THEN Returned(<<>>)
             ELSE IF step = 0 /\ start.instant <= end.instant THEN NoReturn
                  ELSE Returned(Expand(start.instant, end.instant - 1, step))

\* _parse_time_value lines 51-61: the three-part branch
IntervalTimes(parts) ==
    LET start == WmsParseTime(parts[1])
        end == WmsParseTime(parts[2])
        step == _parse_duration(PartChars(parts[3]))
    IN  IF ~start.ok \/ ~end.ok THEN Raised
        ELSE IF step = None THEN Returned(<<>>)
             ELSE IF step = 0 /\ start.instant <= end.instant THEN NoReturn
                  ELSE Returned(Expand(start.instant, end.instant, step))

\* _parse_time_value
_parse_time_value(value) ==
    IF value = <<>> THEN Returned(<<>>)
    ELSE LET parts == SplitAt(value, Slash)
         IN  IF Len(parts) = 3 THEN IntervalTimes(parts)
             ELSE ParseItems(SplitAt(value, Comma))

\* parse_capabilities lines 141-149 and 157 for one Layer: the times of its
\* Dimension and Extent texts, gathered in order, then sorted(set(...))
RECURSIVE GatherTimes(_)
GatherTimes(dims) ==
    IF dims = <<>> THEN Returned(<<>>)
    ELSE LET first == IF Head(dims) = <<>> THEN Returned(<<>>)
                      ELSE _parse_time_value(Head(dims))
         IN  IF first.outcome /= "returned" THEN first
             ELSE LET rest == GatherTimes(Tail(dims))
                  IN  IF rest.outcome /= "returned" THEN rest
                      ELSE Returned(first.times \o rest.times)

parse_capabilities(dims) ==
    LET gathered == GatherTimes(dims)
    IN  IF gathered.outcome /= "returned" THEN gathered
        ELSE Returned(SortAsc(Range(gathered.times)))

\* the period texts of the capabilities documents, with the duration in
\* seconds each one denotes in ISO 8601 (a month taken as 30 days, a year
\* as 365) and its form: "whole" for whole-number week, day, hour, minute
\* and second components, "calendar" with a year or month component,
\* "fraction" with a decimal fraction
PeriodTexts ==
    { [chars |-> <<"P", "T", "1", "H">>, denotes |-> 3600, form |-> "whole"],
      [chars |-> <<"P", "T", "3", "0", "M">>, denotes |-> 1800, form |-> "whole"],
      [chars |-> <<"P", "T", "5", "0", "M">>, denotes |-> 3000, form |-> "whole"],
      [chars |-> <<"P", "T", "1", "H", "3", "0", "M">>, denotes |-> 5400, form |-> "whole"],
      [chars |-> <<"P", "T", "3", "6", "0", "0", "S">>, denotes |-> 3600, form |-> "whole"],
      [chars |-> <<"P", "1", "D">>, denotes |-> 86400, form |-> "whole"],
      [chars |-> <<"P", "1", "W">>, denotes |-> 604800, form |-> "whole"],
      [chars |-> <<"P", "1", "D", "T", "1", "H">>, denotes |-> 90000, form |-> "whole"],
      [chars |-> <<"P", "T", "0", "S">>, denotes |-> 0, form |-> "whole"],
      [chars |-> <<"P", "1", "M">>, denotes |-> 2592000, form |-> "calendar"],
      [chars |-> <<"P", "1", "Y">>, denotes |-> 31536000, form |-> "calendar"],
      [chars |-> <<"P", "T", "0", ".", "5", "H">>, denotes |-> 1800, form |-> "fraction"] }

Periods == {PeriodText(p.chars) : p \in PeriodTexts}
Zones == {"Z", ""}
Timestamps == {TimeText(t, z) : t \in WmsInstants, z \in Zones}

\* start/end/period
Intervals ==
    {<<TimeText(a, "Z"), Slash, TimeText(b, "Z"), Slash, p>> :
        a \in WmsInstants, b \in WmsInstants, p \in Periods}

\* a "/" with another number of parts than three
Malformed ==
    {<<Slash>>}
    \cup {<<a, Slash, b>> : a \in Timestamps, b \in Timestamps}
    \cup {<<TimeText(a, "Z"), Slash, TimeText(b, "Z"), Slash, p, Slash, p>> :
             a \in WmsInstants, b \in WmsInstants, p \in Periods}

\* comma-separated timestamps, with empty items
Lists ==
    {<<>>}
    \cup {<<a>> : a \in Timestamps}
    \cup {<<a, Comma, b>> : a \in Timestamps, b \in Timestamps}
    \cup {<<a, Comma, Comma, b>> : a \in Timestamps, b \in Timestamps}

TimeValues == Intervals \cup Malformed \cup Lists

\* the texts used for the Dimension/Extent elements of a Layer
DimensionValues ==
    {<<>>, <<TimeText(0, "Z")>>, <<TimeText(0, "Z"), Comma, TimeText(WmsStep, "")>>,
     <<TimeText(0, "Z"), Slash, TimeText(WmsStep, "Z")>>,
     <<TimeText(0, "Z"), Slash, TimeText(2 * WmsStep, "Z"), Slash,
       PeriodText(<<"P", "T", "1", "H">>)>>,
     <<TimeText(0, "Z"), Slash, TimeText(WmsStep, "Z"), Slash,
       PeriodText(<<"P", "1", "M">>)>>}

DimensionLists == UNION {[1..n -> DimensionValues] : n \in 1..MaxDims}

\* _parse_time_value applied to the text
ParseTimeValue ==
    /\ parsed_times = NotCalled
    /\ dimensions = <<>>
    /\ parsed_times' = _parse_time_value(time_text)
    /\ UNCHANGED <<time_text, dimensions, layer_times>>
    /\ UNCHANGED <<last_times, state_file, data_dir, pc, dry_run, layers,
                   cutoff, layer_pos, times, last_saved, time_value,
                   missing_tiles, calls, prior, dir_before, file_before, runs,
                   last_call>>
    /\ UNCHANGED stack_vars
    /\ UNCHANGED tiles_vars
    /\ UNCHANGED pixel_vars

\* parse_capabilities applied to a document with one Layer
ParseCapabilities ==
    /\ layer_times = NotCalled
    /\ dimensions /= <<>>
    /\ layer_times' = parse_capabilities(dimensions)
    /\ UNCHANGED <<time_text, parsed_times, dimensions>>
    /\ UNCHANGED <<last_times, state_file, data_dir, pc, dry_run, layers,
                   cutoff, layer_pos, times, last_saved, time_value,
                   missing_tiles, calls, prior, dir_before, file_before, runs,
                   last_call>>
    /\ UNCHANGED stack_vars
    /\ UNCHANGED tiles_vars
    /\ UNCHANGED pixel_vars

WmsNext ==
    \/ ParseTimeValue
    \/ ParseCapabilities

\* a time text for _parse_time_value, or the time texts of a Layer for
\* parse_capabilities
InitWms ==
    /\ PixelsIdle
    /\ FilesInit
    /\ parsed_times = NotCalled
    /\ layer_times = NotCalled
    /\ \/ time_text \in TimeValues /\ dimensions = <<>>
       \/ time_text = <<>> /\ dimensions \in DimensionLists
    /\ TilesIdle

SpecWms == InitWms /\ [][WmsNext]_vars

\* ------------------------------------------------------------- tiles.py
\* coordinates of a bounding box are -MaxCoord..MaxCoord (ground units)
MaxCoord == 2
\* configured tile sizes in pixels are 1..MaxTileSize
MaxTileSize == 2
\* configured resolutions (ground units per pixel) are 1..MaxResolution
MaxResolution == 2

Coords == (0 - MaxCoord)..MaxCoord

BoundingBox(crs, minx, miny, maxx, maxy) ==
    [crs |-> crs, minx |-> minx, miny |-> miny, maxx |-> maxx, maxy |-> maxy]

\* BoundingBox.width / BoundingBox.height
BBoxWidth(bbox) == bbox.maxx - bbox.minx
BBoxHeight(bbox) == bbox.maxy - bbox.miny

\* DEFAULT_TILE_BBOX, the home region, on the scale of Coords
DEFAULT_TILE_BBOX == BoundingBox("EPSG:3575", -1, -1, 1, 1)

TileRequest(bbox, width, height) == [bbox |-> bbox, width |-> width, height |-> height]

\* the CRS names of the capabilities documents and str.upper() of each
CrsNames == {"EPSG:3575", "epsg:3575", "EPSG:4326"}
Upper(crs) == IF crs = "epsg:3575" THEN "EPSG:3575" ELSE crs

\* mutant of _contains_bbox: the upper edge is not compared
ContainsBbox_NoMaxY(outer, inner) ==
    /\ outer.minx <= inner.minx
    /\ outer.miny <= inner.miny
    /\ outer.maxx >= inner.maxx

\* _contains_bbox
_contains_bbox(outer, inner) ==
    /\ outer.minx <= inner.minx
    /\ outer.miny <= inner.miny
    /\ outer.maxx >= inner.maxx
    /\ outer.maxy >= inner.maxy

\* mutant of _select_extent: the layer's own bbox is never used
SelectExtent_AlwaysDefault(bbox) == DEFAULT_TILE_BBOX

\* _select_extent
_select_extent(bbox) ==
    IF bbox = NoBBox THEN DEFAULT_TILE_BBOX
    ELSE IF Upper(bbox.crs) /= Upper(DEFAULT_TILE_BBOX.crs) THEN bbox
         ELSE IF _contains_bbox(bbox, DEFAULT_TILE_BBOX) THEN DEFAULT_TILE_BBOX
              ELSE bbox

\* math.ceil(a / b) for a positive b
Ceil(a, b) == 0 - ((0 - a) \div b)

\* _generate_tiles lines 106-121: the inner loop, y_index .. y_count - 1
RECURSIVE YLoop(_, _, _, _, _, _)
YLoop(bbox, tile_width, tile_height, resolution, x_index, y_index) ==
    LET tile_width_units == tile_width * resolution
        tile_height_units == tile_height * resolution
        y_count == Max(1, Ceil(BBoxHeight(bbox), tile_height_units))
        minx == bbox.minx + x_index * tile_width_units
        maxx == minx + tile_width_units
        miny == bbox.miny + y_index * tile_height_units
        maxy == miny + tile_height_units
    IN  IF y_index >= y_count THEN <<>>
        ELSE <<TileRequest(BoundingBox(bbox.crs, minx, miny, maxx, maxy),
                           tile_width, tile_height)>>
             \o YLoop(bbox, tile_width, tile_height, resolution, x_index, y_index + 1)

\* _generate_tiles lines 103-121: the outer loop, x_index .. x_count - 1
RECURSIVE XLoop(_, _, _, _, _)
XLoop(bbox, tile_width, tile_height, resolution, x_index) ==
    LET x_count == Max(1, Ceil(BBoxWidth(bbox), tile_width * resolution))
    IN  IF x_index >= x_count THEN <<>>
        ELSE YLoop(bbox, tile_width, tile_height, resolution, x_index, 0)
             \o XLoop(bbox, tile_width, tile_height, resolution, x_index + 1)

\* mutant of _generate_tiles: the tiles of the last column and row are
\* clipped to the extent
GenerateTiles_Clipped(bbox, tile_width, tile_height, resolution) ==
    LET tiles == XLoop(bbox, tile_width, tile_height, resolution, 0)
    IN  [k \in 1..Len(tiles) |->
            [tiles[k] EXCEPT !.bbox.maxx = IF @ > bbox.maxx THEN bbox.maxx ELSE @,
                             !.bbox.maxy = IF @ > bbox.maxy THEN bbox.maxy ELSE @]]

\* _generate_tiles
_generate_tiles(bbox, tile_width, tile_height, resolution) ==
    XLoop(bbox, tile_width, tile_height, resolution, 0)

\* resolve_tiles
resolve_tiles(bbox, config) ==
    IF config.bboxes /= <<>>
    THEN [k \in 1..Len(config.bboxes) |->
            TileRequest(config.bboxes[k], config.tile_width, config.tile_height)]
    ELSE LET extent == _select_extent(bbox)
         IN  IF config.resolution /= None /\ config.resolution /= 0
             THEN _generate_tiles(extent, config.tile_width, config.tile_height,
                                  config.resolution)
             ELSE <<TileRequest(extent, config.tile_width, config.tile_height)>>

\* the bounding boxes a capabilities document can give a layer
BBoxes ==
    {BoundingBox(crs, minx, miny, maxx, maxy) :
        crs \in CrsNames, minx \in Coords, miny \in Coords,
        maxx \in Coords, maxy \in Coords}

TileSizes == 1..MaxTileSize
Resolutions == 1..MaxResolution

\* the tile configurations: the default one, other tile sizes, a zero
\* resolution, a resolution, explicit bboxes
TileConfigs ==
    {DefaultConfig}
    \cup {[tile_width |-> w, tile_height |-> h, resolution |-> r, bboxes |-> <<>>] :
             w \in TileSizes, h \in TileSizes, r \in {None, 0} \cup Resolutions}
    \cup {[DefaultConfig EXCEPT !.bboxes = <<BoundingBox("EPSG:4326", 0, 0, 1, 1)>>],
          [DefaultConfig EXCEPT !.bboxes = <<BoundingBox("EPSG:3575", 0, 0, 1, 1),
                                             BoundingBox("EPSG:3575", 1, 0, 2, 1)>>,
                                !.resolution = 1]}

GridArgs ==
    {[bbox |-> b, tile_width |-> w, tile_height |-> h, resolution |-> r] :
        b \in {x \in BBoxes : x.crs = "EPSG:3575"},
        w \in TileSizes, h \in TileSizes, r \in Resolutions}

\* resolve_tiles applied to the layer and the configuration
ResolveTiles ==
    /\ tile_requests = NoTiles
    /\ grid_args = NoGrid
    /\ tile_requests' = resolve_tiles(layer_bbox, tile_config)
    /\ UNCHANGED <<layer_bbox, tile_config, grid_args, grid_tiles>>
    /\ UNCHANGED <<last_times, state_file, data_dir, pc, dry_run, layers,
                   cutoff, layer_pos, times, last_saved, time_value,
                   missing_tiles, calls, prior, dir_before, file_before, runs,
                   last_call>>
    /\ UNCHANGED stack_vars
    /\ UNCHANGED wms_vars
    /\ UNCHANGED pixel_vars

\* _generate_tiles applied to its arguments
GenerateTiles ==
    /\ grid_tiles = NoTiles
    /\ grid_args /= NoGrid
    /\ grid_tiles' = _generate_tiles(grid_args.bbox, grid_args.tile_width,
                                     grid_args.tile_height, grid_args.resolution)
    /\ UNCHANGED <<layer_bbox, tile_config, tile_requests, grid_args>>
    /\ UNCHANGED <<last_times, state_file, data_dir, pc, dry_run, layers,
                   cutoff, layer_pos, times, last_saved, time_value,
                   missing_tiles, calls, prior, dir_before, file_before, runs,
                   last_call>>
    /\ UNCHANGED stack_vars
    /\ UNCHANGED wms_vars
    /\ UNCHANGED pixel_vars

TilesNext ==
    \/ ResolveTiles
    \/ GenerateTiles

\* a layer bbox (or none) and a configuration for resolve_tiles, or the
\* arguments of a _generate_tiles call
InitTiles ==
    /\ PixelsIdle
    /\ FilesInit
    /\ WmsIdle
    /\ tile_requests = NoTiles
    /\ grid_tiles = NoTiles
    /\ \/ /\ layer_bbox \in BBoxes \cup {NoBBox}
          /\ tile_config \in TileConfigs
          /\ grid_args = NoGrid
       \/ /\ layer_bbox = NoBBox
          /\ tile_config = DefaultConfig
          /\ grid_args \in GridArgs

SpecTiles == InitTiles /\ [][TilesNext]_vars

\* ------------------------------------------------- stacker.py, pixels
\* _stack_images on the pixels of the frames.  An image is the sequence of
\* its RGBA pixels; the frames of one tile index have one size, so the
\* size check of line 147 passes.

NumPixels == 3
MaxStacked == 2

Positions == 1..NumPixels

Pixel(r, g, b, a) == [r |-> r, g |-> g, b |-> b, a |-> a]

\* the pixels of the PNG files: transparent, opaque gray, opaque red and
\* blue, a half-transparent red, a faint tint (chroma 10) and a tint just
\* above the threshold (chroma 19)
Transparent == Pixel(0, 0, 0, 0)
Gray == Pixel(100, 100, 100, 255)
Red == Pixel(255, 0, 0, 255)
Blue == Pixel(0, 0, 255, 255)
HalfRed == Pixel(255, 0, 0, 128)
Faint == Pixel(110, 100, 100, 255)
Tint == Pixel(119, 100, 100, 255)
Palette == {Transparent, Gray, Red, Blue, HalfRed, Faint, Tint}

Images == [Positions -> Palette]

\* ImageChops.lighter / darker / subtract on one band value
Lighter(a, b) == IF a >= b THEN a ELSE b
Darker(a, b) == IF a <= b THEN a ELSE b
Subtract(a, b) == IF a - b < 0 THEN 0 ELSE a - b

\* _compute_chroma at one pixel: max(R, G, B) - min(R, G, B)
ChromaAt(px) ==
    LET max_rg == Lighter(px.r, px.g)
        max_rgb == Lighter(max_rg, px.b)
        min_rg == Darker(px.r, px.g)
        min_rgb == Darker(min_rg, px.b)
    IN  Subtract(max_rgb, min_rgb)

\* _compute_chroma
_compute_chroma(image) == [k \in DOMAIN image |-> ChromaAt(image[k])]

\* Image.alpha_composite: the rounded division by 255 of its integer code
ShiftForDiv255(a) == ((a \div 256) + a) \div 256

\* Image.alpha_composite at one pixel: src over dst, in the integer
\* arithmetic of the library (7 bits of extra precision)
AlphaCompositeAt(dst, src) ==
    IF src.a = 0 THEN dst
    ELSE LET blend == dst.a * (255 - src.a)
             outa255 == src.a * 255 + blend
             coef1 == (src.a * 255 * 255 * 128) \div outa255
             coef2 == 255 * 128 - coef1
             Band(s, d) == ShiftForDiv255(s * coef1 + d * coef2 + 128 * 128) \div 128
         IN  Pixel(Band(src.r, dst.r), Band(src.g, dst.g), Band(src.b, dst.b),
                   ShiftForDiv255(outa255 + 128))

\* Image.alpha_composite(output, frame)
alpha_composite(output, frame) ==
    [k \in DOMAIN output |-> AlphaCompositeAt(output[k], frame[k])]

\* line 156: the threshold of the mask
CHROMA_THRESHOLD == 18

\* mutant of Mask: the threshold is applied to the absolute difference
Mask_Absolute(frame_chroma, base_chroma) ==
    [k \in DOMAIN frame_chroma |->
        IF \/ frame_chroma[k] - base_chroma[k] > CHROMA_THRESHOLD
           \/ base_chroma[k] - frame_chroma[k] > CHROMA_THRESHOLD
        THEN 255 ELSE 0]

\* lines 155-156: the mask of a frame against the base chroma
Mask(frame_chroma, base_chroma) ==
    [k \in DOMAIN frame_chroma |->
        IF Subtract(frame_chroma[k], base_chroma[k]) > CHROMA_THRESHOLD THEN 255 ELSE 0]

\* Image.composite(frame, output, mask) for a mask of 0 and 255
composite(frame, output, mask) ==
    [k \in DOMAIN output |-> IF mask[k] = 255 THEN frame[k] ELSE output[k]]

\* the first frame, when there is no base: copied, then composited over
\* the copy (lines 145-153)
FirstFrame(frame) == alpha_composite(frame, frame)

\* _stack_images lines 142-158: the loop over the remaining paths; without
\* a base image output and base_chroma are NoImage
RECURSIVE StackLoop(_, _, _, _)
StackLoop(rest, output, base_chroma, used_count) ==
    IF rest = <<>> THEN [outcome |-> "returned", output |-> output, used_count |-> used_count]
    ELSE LET frame == Head(rest)
         IN  IF base_chroma = NoImage
             THEN StackLoop(Tail(rest), FirstFrame(frame), _compute_chroma(frame),
                            used_count + 1)
             ELSE StackLoop(Tail(rest),
                            composite(frame, output, Mask(_compute_chroma(frame), base_chroma)),
                            base_chroma, used_count + 1)

\* _stack_images, with the images at the paths and at base_path
StackImagesPixels(frames, base) ==
    IF frames = <<>> /\ base = NoImage
    THEN [outcome |-> "raised", output |-> NoImage, used_count |-> 0]
    ELSE IF base /= NoImage
         THEN StackLoop(frames, base, _compute_chroma(base), 0)
         ELSE StackLoop(frames, NoImage, NoImage, 0)

\* the frames of one (layer, day, tile index) in time order
FrameLists == UNION {[1..n -> Images] : n \in 0..MaxStacked}

\* _stack_images applied to the frames and the base
StackImages ==
    /\ stack_result = NotStacked
    /\ stack_paths /= <<>> \/ stack_base /= NoImage
    /\ stack_result' = StackImagesPixels(stack_paths, stack_base)
    /\ UNCHANGED <<stack_paths, stack_base, later_frame, folded>>
    /\ UNCHANGED <<last_times, state_file, data_dir, pc, dry_run, layers,
                   cutoff, layer_pos, times, last_saved, time_value,
                   missing_tiles, calls, prior, dir_before, file_before, runs,
                   last_call>>
    /\ UNCHANGED stack_vars
    /\ UNCHANGED wms_vars
    /\ UNCHANGED tiles_vars

PixelsNext == StackImages

\* the frames of a tile index, stacked from scratch, or one new frame
\* stacked onto an existing composite
InitPixels ==
    /\ FilesInit
    /\ WmsIdle
    /\ TilesIdle
    /\ stack_result = NotStacked
    /\ later_frame = NoImage
    /\ folded = NotStacked
    /\ \/ /\ stack_base = NoImage
          /\ stack_paths \in FrameLists \ {<<>>}
       \/ /\ stack_base \in Images
          /\ stack_paths \in {f \in FrameLists : Len(f) = 1}

SpecPixels == InitPixels /\ [][PixelsNext]_vars

\* build_day_stacks lines 223-224 in a later run that discovers later_frame
\* alone while the day records earlier instants: the saved composite is the
\* base image (a PNG file holds the pixels as they were saved)
FoldLater ==
    /\ stack_result.outcome = "returned"
    /\ later_frame /= NoImage
    /\ folded = NotStacked
    /\ folded' = StackImagesPixels(<<later_frame>>, stack_result.output)
    /\ UNCHANGED <<stack_paths, stack_base, stack_result, later_frame>>
    /\ UNCHANGED <<last_times, state_file, data_dir, pc, dry_run, layers,
                   cutoff, layer_pos, times, last_saved, time_value,
                   missing_tiles, calls, prior, dir_before, file_before, runs,
                   last_call>>
    /\ UNCHANGED stack_vars
    /\ UNCHANGED wms_vars
    /\ UNCHANGED tiles_vars

IncrNext ==
    \/ StackImages
    \/ FoldLater

\* the frames of the two runs: opaque pixels, neutral, saturated or tinted
IncrPalette == {Gray, Red, Tint}
IncrImages == [Positions -> IncrPalette]

\* two frames for the first run and a later frame for the second run
InitIncr ==
    /\ FilesInit
    /\ WmsIdle
    /\ TilesIdle
    /\ stack_base = NoImage
    /\ stack_paths \in [1..2 -> IncrImages]
    /\ later_frame \in IncrImages
    /\ stack_result = NotStacked
    /\ folded = NotStacked

SpecIncr == InitIncr /\ [][IncrNext]_vars

\* ------------------------------------------------------ claims C1 - C7
\* C1: after update(layer, t) latest_for(layer) is the maximum of its previous
\* value and t (so it never decreases), and latest_for of every other layer
\* is what it was.
C1_WatermarkMonotone ==
    last_call /= NoCall =>
        \A l \in Layers :
            IF l = last_call.layer
            THEN /\ latest_for(last_times, l)
                        = Max(latest_for(last_call.before, l), last_call.value)
                 /\ latest_for(last_times, l) >= latest_for(last_call.before, l)
            ELSE latest_for(last_times, l) = latest_for(last_call.before, l)

\* an update with an instant earlier than the watermark was made, while the
\* other layer has a watermark too
C1_Witness ==
    /\ last_call /= NoCall
    /\ last_call.value < latest_for(last_call.before, last_call.layer)
    /\ \E l \in Layers \ {last_call.layer} : latest_for(last_times, l) /= None

\* the instants of a layer that _process_layer visits: advertised and not
\* older than the cutoff
Window(l) == {t \in layers[l] : cutoff = None \/ t >= cutoff}

AllTilesPresent(dir, l, t) == \A i \in TileIndices : TileFile(l, t, i) \in dir

\* C2: the watermark of a layer is never later than (or at) an instant of the
\* window, later than the prior watermark, that still has a missing tile.
C2_WatermarkOnlyPastComplete ==
    \A l \in Layers : \A t \in Window(l) :
        (latest_for(prior, l) < t /\ t <= latest_for(last_times, l))
            => AllTilesPresent(data_dir, l, t)

\* the calls of the process that fetched for layer l
CallsOf(l) == {k \in 1..Len(calls) : calls[k].layer = l}

\* C3: once a fetch has failed no further fetch is made by the process (not
\* for a later instant, not for a later layer), nothing is saved, and when the
\* failed fetch is the first one of a layer without prior watermark, for the
\* layer's earliest instant, it is the layer's only fetch and the layer's
\* watermark stays unset.
C3_AbortOnFailure ==
    \A k \in 1..Len(calls) :
        calls[k].response = "error" =>
            LET l == calls[k].layer
                t1 == calls[k].time
            IN  /\ k = Len(calls)
                /\ pc = "crashed"
                /\ state_file = file_before
                /\ \A j \in CallsOf(l) : calls[j].time <= t1
                /\ ( /\ latest_for(prior, l) = None
                     /\ \A t \in Window(l) : t >= t1
                     /\ \A j \in CallsOf(l) : j >= k )
                   => /\ latest_for(last_times, l) = None
                      /\ CallsOf(l) = {k}

\* T1 = 0 < T2 = 1 of the first layer, no prior watermark, all tiles of both
\* missing, and the first fetch (T1, tile 0) has failed
C3_Witness ==
    /\ pc = "crashed"
    /\ Len(calls) = 1
    /\ calls[1].response = "error"
    /\ calls[1].time = 0
    /\ layers[calls[1].layer] = {0, 1}
    /\ cutoff = None
    /\ latest_for(prior, calls[1].layer) = None
    /\ \A i \in TileIndices : TileFile(calls[1].layer, 1, i) \notin data_dir

\* C4: a failed fetch does not end the process: it does not crash, and when
\* it is done every layer was visited and the state was saved.
C4_FailureContained ==
    (\E k \in 1..Len(calls) : calls[k].response = "error") =>
        /\ pc /= "crashed"
        /\ pc = "done" => state_file = save_state(last_times)

\* the indices of the calls made for (l, t), in call order
RECURSIVE IndicesFetched(_, _, _)
IndicesFetched(cs, l, t) ==
    IF cs = <<>> THEN <<>>
    ELSE (IF Head(cs).layer = l /\ Head(cs).time = t
          THEN <<Head(cs).index>> ELSE <<>>) \o IndicesFetched(Tail(cs), l, t)

\* the process is still fetching tiles of (l, t)
Fetching(l, t) == pc = "fetch" /\ CurrentLayer = l /\ time_value = t

\* C5: a non-dry run never fetches a tile whose file existed; the fetches
\* made for an instant, followed by those still to make, are the indices
\* absent at the start in ascending order; and when all of them were made
\* without error the watermark is at or past that instant.
C5_Resumable ==
    /\ \A k \in 1..Len(calls) :
            TileFile(calls[k].layer, calls[k].time, calls[k].index) \notin dir_before
    /\ \A l \in Layers : \A t \in CapInstants :
        LET fetched == IndicesFetched(calls, l, t)
            absent == MissingTiles(dir_before, l, t)
        IN  fetched /= <<>> =>
                /\ ~dry_run
                /\ IF Fetching(l, t)
                   THEN fetched \o missing_tiles = absent
                   ELSE \/ /\ fetched = absent
                           /\ latest_for(last_times, l) >= t
                           /\ AllTilesPresent(data_dir, l, t)
                        \/ /\ pc = "crashed"
                           /\ calls[Len(calls)].response = "error"

\* an instant directory held tile 0 but not tile 1; the run fetched tile 1
\* alone and the watermark is at that instant
C5_Witness ==
    \E l \in Layers : \E t \in CapInstants :
        /\ TileFile(l, t, 0) \in dir_before
        /\ TileFile(l, t, 1) \notin dir_before
        /\ IndicesFetched(calls, l, t) = <<1>>
        /\ latest_for(last_times, l) = t
        /\ latest_for(prior, l) /= t

\* C6: a dry run fetches nothing, writes no tile file, leaves the state file
\* as it was, and moves the watermark only to instants whose tiles are all
\* on disk.
C6_DryRunFrame ==
    dry_run =>
        /\ calls = <<>>
        /\ data_dir = dir_before
        /\ state_file = file_before
        /\ \A l \in Layers :
              latest_for(last_times, l) /= latest_for(prior, l)
                  => AllTilesPresent(data_dir, l, latest_for(last_times, l))

\* a dry run has finished over a layer that had an instant with a missing
\* tile inside the window and after the watermark
C6_Witness ==
    /\ dry_run
    /\ pc = "done"
    /\ \E l \in Layers : \E t \in Window(l) :
          /\ t > latest_for(prior, l)
          /\ ~AllTilesPresent(data_dir, l, t)

\* C7: a response that is no image writes no file and is handled like a
\* failed fetch: it is the last call of the process and the watermark does
\* not reach its instant.
C7_NonImageRejected ==
    \A k \in 1..Len(calls) :
        calls[k].response = "non_image" =>
            /\ TileFile(calls[k].layer, calls[k].time, calls[k].index) \notin data_dir
            /\ k = Len(calls)
            /\ latest_for(last_times, calls[k].layer) < calls[k].time

\* ----------------------------------------------------- claims C8 - C10
\* the day entries a manifest records for a layer, and the calendar days
MDays(manifest, l) ==
    UNION {Range(e.days) : e \in {x \in Range(manifest.layers) : x.name = l}}
Days == {DateOf(t) : t \in Instants}

\* what the last stacker run discovered: the frames of one tile index of a
\* day, and the instants of all the day's frames
Discovered ==
    {f \in data_dir : \/ ~stack_layers.given
                      \/ stack_layers.names = {}
                      \/ f[1] \in stack_layers.names}
FramesOf(l, day, i) == {f \in Discovered : f[1] = l /\ DateOf(f[2]) = day /\ f[3] = i}
InstantsOf(l, day) == {f[2] : f \in {g \in Discovered : g[1] = l /\ DateOf(g[2]) = day}}
ParsedTimes(day_entry) == {v[1] * DayLen + v[2] : v \in Range(day_entry.times)}

\* C8: when the previous manifest records a tile of a day whose composite is
\* still on disk, and the run discovers frames of that tile while every
\* instant it discovers for the day is new to the day's time list, the new
\* count is the previous count plus the number of frames discovered for the
\* tile, and the new time list holds the earlier and the new instants, once
\* each.
C8_IncrementalCount ==
    \A l \in Layers : \A day \in Days : \A i \in TileIndices :
      \A od \in MDays(prev_manifest, l) : \A ot \in Range(od.tiles) :
        ( /\ stack_runs >= 1
          /\ od.date = <<day>> /\ ot.index = i
          /\ FramesOf(l, day, i) /= {}
          /\ ot.path \in daily_before
          /\ od.times /= <<>>
          /\ InstantsOf(l, day) \cap ParsedTimes(od) = {} )
        => \E nd \in MDays(manifest_file, l) :
              /\ nd.date = <<day>>
              /\ \E nt \in Range(nd.tiles) :
                    /\ nt.index = i
                    /\ nt.count = ot.count + Cardinality(FramesOf(l, day, i))
              /\ ParsedTimes(nd) = ParsedTimes(od) \cup InstantsOf(l, day)
              /\ Len(nd.times) = Len(od.times) + Cardinality(InstantsOf(l, day))

\* frames A and B of a tile were stacked by the first run (count 2); the
\* second run found the new frame C alone: count 3, three recorded instants
C8_Witness ==
    \E l \in Layers : \E day \in Days : \E i \in TileIndices :
      \E od \in MDays(prev_manifest, l) : \E ot \in Range(od.tiles) :
        \E nd \in MDays(manifest_file, l) : \E nt \in Range(nd.tiles) :
          /\ stack_runs = 2
          /\ od.date = <<day>> /\ nd.date = <<day>>
          /\ ot.index = i /\ nt.index = i
          /\ ot.count = 2 /\ Len(od.times) = 2
          /\ ot.path \in daily_before
          /\ Cardinality(FramesOf(l, day, i)) = 1
          /\ InstantsOf(l, day) \cap ParsedTimes(od) = {}
          /\ nt.count = 3 /\ Len(nd.times) = 3

\* C9: the count the manifest records for a (layer, day, tile index) is
\* never lower than the count the previous manifest recorded for it.
C9_CountNeverDecreases ==
    \A l \in Layers :
      \A od \in MDays(prev_manifest, l) : \A ot \in Range(od.tiles) :
        \A nd \in MDays(manifest_file, l) : \A nt \in Range(nd.tiles) :
          (nd.date = od.date /\ nt.index = ot.index) => nt.count >= ot.count

\* a sequence of integers is strictly ascending
Ascending(keys) ==
    \A j \in 1..Len(keys) : \A k \in 1..Len(keys) : j < k => keys[j] < keys[k]

\* C10: in the manifest the layers are strictly ascending by name, the days
\* of a layer strictly ascending by date and the tiles of a day strictly
\* ascending by index (so each is free of duplicates).
C10_ManifestSorted ==
    /\ Ascending([k \in 1..Len(manifest_file.layers) |->
                     NameRank(manifest_file.layers[k].name)])
    /\ \A e \in Range(manifest_file.layers) :
          /\ Ascending([k \in 1..Len(e.days) |-> e.days[k].date[1]])
          /\ \A d \in Range(e.days) :
                Ascending([k \in 1..Len(d.tiles) |-> d.tiles[k].index])

\* a manifest of two layers written by a merging run, with a layer of two
\* days, one of them carried forward from the previous manifest, and a day
\* of two tiles
C10_Witness ==
    /\ stack_runs = 2
    /\ Len(manifest_file.layers) = 2
    /\ \E e \in Range(manifest_file.layers) :
          /\ Len(e.days) = 2
          /\ \E d \in Range(e.days) : Len(d.tiles) = 2
          /\ \E d \in Range(e.days) : d \in MDays(prev_manifest, e.name)
          /\ \E d \in Range(e.days) : d \notin MDays(prev_manifest, e.name)

\* ---------------------------------------------------- claims C11 - C20
\* the layers of the previous manifest the last run was restricted to, in
\* their recorded order
KeptLayers ==
    IF stack_layers.given
    THEN SelectSeq(prev_manifest.layers, LAMBDA e : e.name \in stack_layers.names)
    ELSE prev_manifest.layers

\* C11: when the last run discovered no tile and found a manifest, the
\* manifest it wrote holds exactly the layers of the manifest it found that
\* pass the layer filter, unchanged and in their order, and the run saved no
\* composite file.
C11_EmptyDiscoveryShortcut ==
    (stack_runs >= 1 /\ Discovered = {} /\ prev_manifest.exists) =>
        /\ manifest_file.layers = KeptLayers
        /\ saved = {}
        /\ daily_dir \subseteq daily_before

\* the second run was restricted to one layer and found none of its tiles;
\* the manifest it found held two layers with days, one of which it kept
C11_Witness ==
    /\ stack_runs = 2
    /\ Discovered = {}
    /\ stack_layers.given
    /\ Len(prev_manifest.layers) = 2
    /\ Len(manifest_file.layers) = 1
    /\ manifest_file.layers[1].days /= <<>>
    /\ daily_dir /= {}

RecordedInstants(l, day) ==
    UNION {ParsedTimes(od) : od \in {d \in MDays(prev_manifest, l) : d.date = <<day>>}}

\* C19: for every day of a layer the last run discovered, the manifest holds
\* one entry of that day, and its time list is the discovered instants
\* together with the instants the previous manifest recorded for the day,
\* each once, ascending.
C19_TimesAreUnion ==
    \A l \in Layers : \A day \in Days :
        (stack_runs >= 1 /\ InstantsOf(l, day) /= {}) =>
            LET union == SortAsc(InstantsOf(l, day) \cup RecordedInstants(l, day))
                entries == {nd \in MDays(manifest_file, l) : nd.date = <<day>>}
            IN  /\ Cardinality(entries) = 1
                /\ \A nd \in entries :
                      nd.times = [k \in 1..Len(union) |->
                                    <<union[k] \div DayLen, union[k] % DayLen>>]

\* the previous manifest recorded two instants of a day; the run discovered
\* one of them again and a new one: three instants in the list
C19_Witness ==
    \E l \in Layers : \E day \in Days :
        /\ stack_runs = 2
        /\ Cardinality(RecordedInstants(l, day)) = 2
        /\ Cardinality(InstantsOf(l, day)) = 2
        /\ Cardinality(InstantsOf(l, day) \cap RecordedInstants(l, day)) = 1
        /\ \E nd \in MDays(manifest_file, l) : nd.date = <<day>> /\ Len(nd.times) = 3

\* C20: for a day that the previous manifest records and the last run
\* discovered, every recorded tile entry whose index the run did not
\* discover is in the day's new entry as it was, and the run did not save
\* its composite file.
C20_IndexCarryForward ==
    \A l \in Layers : \A day \in Days :
      \A od \in MDays(prev_manifest, l) : \A ot \in Range(od.tiles) :
        ( /\ stack_runs >= 1
          /\ od.date = <<day>>
          /\ InstantsOf(l, day) /= {}
          /\ FramesOf(l, day, ot.index) = {} )
        => /\ \E nd \in MDays(manifest_file, l) :
                 nd.date = od.date /\ ot \in Range(nd.tiles)
           /\ ot.path \notin saved

\* the first run stacked tile 0 and tile 1 of a day; the second run found a
\* frame of tile 0 alone, and the entry of tile 1 is still in the manifest
C20_Witness ==
    \E l \in Layers : \E day \in Days :
      \E od \in MDays(prev_manifest, l) : \E nd \in MDays(manifest_file, l) :
        /\ stack_runs = 2
        /\ od.date = <<day>> /\ nd.date = <<day>>
        /\ Len(od.tiles) = 2
        /\ FramesOf(l, day, 0) /= {}
        /\ FramesOf(l, day, 1) = {}
        /\ od.tiles[2] \in Range(nd.tiles)
        /\ nd.tiles[1] /= od.tiles[1]

\* the text is start/end/period with the three parts given
IsInterval(value) ==
    /\ Len(value) = 5
    /\ value[1].kind = "time" /\ value[2] = Slash
    /\ value[3].kind = "time" /\ value[4] = Slash
    /\ value[5].kind = "period"

\* the table entry of a period text
PeriodOf(piece) == CHOOSE p \in PeriodTexts : p.chars = piece.chars

\* start + k*period for k = 0, 1, 2, ... while <= end
Multiples(start, end, period) ==
    IF start > end THEN <<>>
    ELSE [k \in 1..((end - start) \div period + 1) |-> start + (k - 1) * period]

\* C13: for start/end/period with a positive period, _parse_time_value
\* returns exactly start, start + period, start + 2*period, ... up to the
\* last one that is <= end, ascending.
C13_IntervalExpansion ==
    ( /\ parsed_times /= NotCalled
      /\ IsInterval(time_text)
      /\ PeriodOf(time_text[5]).denotes > 0 )
    => parsed_times = Returned(Multiples(time_text[1].instant, time_text[3].instant,
                                          PeriodOf(time_text[5]).denotes))

\* C13, amended: the same for a positive period made of whole-number week,
\* day, hour, minute and second components (no year or month component, no
\* decimal fraction).
C13_WholeComponents ==
    ( /\ parsed_times /= NotCalled
      /\ IsInterval(time_text)
      /\ PeriodOf(time_text[5]).form = "whole"
      /\ PeriodOf(time_text[5]).denotes > 0 )
    => parsed_times = Returned(Multiples(time_text[1].instant, time_text[3].instant,
                                          PeriodOf(time_text[5]).denotes))

\* 00:00/02:00/PT50M was expanded: 00:00, 00:50 and 01:40, short of the end
C13_Witness ==
    /\ IsInterval(time_text)
    /\ time_text[1].instant = 0
    /\ time_text[3].instant = 7200
    /\ time_text[5].chars = <<"P", "T", "5", "0", "M">>
    /\ parsed_times = Returned(<<0, 3000, 6000>>)

\* the text holds a "/" and does not split into three parts
IsMalformed(value) ==
    /\ \E k \in 1..Len(value) : value[k] = Slash
    /\ Cardinality({k \in 1..Len(value) : value[k] = Slash}) /= 2

\* the times of the texts that are not malformed, as parse_capabilities
\* records them
RECURSIVE WellFormedTimes(_)
WellFormedTimes(dims) ==
    IF dims = <<>> THEN {}
    ELSE (IF IsMalformed(Head(dims)) THEN {}
          ELSE Range(_parse_time_value(Head(dims)).times))
         \cup WellFormedTimes(Tail(dims))

\* C14: a malformed interval text yields no times and does not raise, and
\* parse_capabilities of a Layer with such a text returns the times of the
\* Layer's other texts.
C14_MalformedInterval ==
    /\ (parsed_times /= NotCalled /\ IsMalformed(time_text))
          => parsed_times = Returned(<<>>)
    /\ (layer_times /= NotCalled
          /\ \E k \in 1..Len(dimensions) : IsMalformed(dimensions[k]))
          => layer_times = Returned(SortAsc(WellFormedTimes(dimensions)))

\* resolve_tiles was called for a layer that has a bbox, with neither
\* explicit bboxes nor a resolution configured
ResolvedPlain ==
    /\ tile_requests /= NoTiles
    /\ layer_bbox /= NoBBox
    /\ tile_config.bboxes = <<>>
    /\ tile_config.resolution \in {None, 0}

\* the layer's bbox is in the canonical CRS and reaches at least as far as
\* the home region on each of the four sides
CoversHomeRegion(bbox) ==
    /\ Upper(bbox.crs) = "EPSG:3575"
    /\ bbox.minx <= DEFAULT_TILE_BBOX.minx /\ bbox.miny <= DEFAULT_TILE_BBOX.miny
    /\ bbox.maxx >= DEFAULT_TILE_BBOX.maxx /\ bbox.maxy >= DEFAULT_TILE_BBOX.maxy

\* C15: with no explicit bboxes and no resolution, resolve_tiles on a layer
\* that has a bbox returns exactly one tile, and its bbox is the layer's
\* bbox, whatever the bbox is.
C15_SingleTileIsLayerBBox ==
    ResolvedPlain =>
        /\ Len(tile_requests) = 1
        /\ tile_requests[1].bbox = layer_bbox

\* C15, amended: exactly one tile, and its bbox is the layer's bbox unless
\* the layer's bbox is in EPSG:3575 and contains the home-region bbox.
C15_SingleTileOutsideHome ==
    ResolvedPlain =>
        /\ Len(tile_requests) = 1
        /\ ~CoversHomeRegion(layer_bbox) => tile_requests[1].bbox = layer_bbox

\* a layer bbox in EPSG:3575 that leaves out part of the home region, and
\* tile sizes other than the default ones
C15_Witness ==
    /\ ResolvedPlain
    /\ layer_bbox.crs = "EPSG:3575"
    /\ layer_bbox.minx = 0 /\ layer_bbox.maxx = MaxCoord
    /\ tile_config.tile_width /= DEFAULT_TILE_WIDTH
    /\ tile_requests[1].bbox = layer_bbox

\* C16: with the default tile configuration the one tile has the home-region
\* bbox when the layer's bbox is in EPSG:3575 (in any letter case) and
\* contains it on all four sides, and the layer's bbox otherwise.
C16_PrefersHomeRegion ==
    (tile_requests /= NoTiles /\ layer_bbox /= NoBBox /\ tile_config = DefaultConfig) =>
        tile_requests =
            <<[bbox |-> IF CoversHomeRegion(layer_bbox)
                        THEN DEFAULT_TILE_BBOX ELSE layer_bbox,
               width |-> DEFAULT_TILE_WIDTH, height |-> DEFAULT_TILE_HEIGHT]>>

\* a layer bbox named "epsg:3575" that is larger than the home region on
\* every side was resolved to the home-region bbox
C16_Witness ==
    /\ tile_config = DefaultConfig
    /\ layer_bbox.crs = "epsg:3575"
    /\ layer_bbox.minx < DEFAULT_TILE_BBOX.minx /\ layer_bbox.miny < DEFAULT_TILE_BBOX.miny
    /\ layer_bbox.maxx > DEFAULT_TILE_BBOX.maxx /\ layer_bbox.maxy > DEFAULT_TILE_BBOX.maxy
    /\ tile_requests = <<[bbox |-> DEFAULT_TILE_BBOX, width |-> DEFAULT_TILE_WIDTH,
                          height |-> DEFAULT_TILE_HEIGHT]>>

\* the smallest n with n * b >= a, for a positive b
CeilOf(a, b) == CHOOSE n \in (0 - 2 * MaxCoord)..(2 * MaxCoord) : (n - 1) * b < a /\ a <= n * b

\* C18: _generate_tiles returns max(1, ceil(W/fw)) * max(1, ceil(H/fh))
\* tiles; the tile at position i*y_count + j has its min corner at
\* (minx + i*fw, miny + j*fh) and its max corner one footprint further, is
\* not clipped to the extent, and has the configured pixel size.
C18_GridTiling ==
    grid_tiles /= NoTiles =>
        LET bbox == grid_args.bbox
            fw == grid_args.tile_width * grid_args.resolution
            fh == grid_args.tile_height * grid_args.resolution
            x_count == Max(1, CeilOf(bbox.maxx - bbox.minx, fw))
            y_count == Max(1, CeilOf(bbox.maxy - bbox.miny, fh))
        IN  /\ Len(grid_tiles) = x_count * y_count
            /\ \A i \in 0..(x_count - 1) : \A j \in 0..(y_count - 1) :
                  grid_tiles[i * y_count + j + 1] =
                      [bbox |-> [crs |-> bbox.crs,
                                 minx |-> bbox.minx + i * fw,
                                 miny |-> bbox.miny + j * fh,
                                 maxx |-> bbox.minx + i * fw + fw,
                                 maxy |-> bbox.miny + j * fh + fh],
                       width |-> grid_args.tile_width,
                       height |-> grid_args.tile_height]

\* an extent 3 wide and 3 high under a footprint of 2 by 1: two columns of
\* three tiles, the second column reaching past the extent's far edge
C18_Witness ==
    /\ grid_tiles /= NoTiles
    /\ grid_args.bbox.maxx - grid_args.bbox.minx = 3
    /\ grid_args.bbox.maxy - grid_args.bbox.miny = 3
    /\ grid_args.tile_width * grid_args.resolution = 2
    /\ grid_args.tile_height * grid_args.resolution = 1
    /\ Len(grid_tiles) = 6
    /\ grid_tiles[4].bbox.minx = grid_args.bbox.minx + 2
    /\ grid_tiles[4].bbox.maxx > grid_args.bbox.maxx

\* a fully saturated colour, a neutral or transparent pixel
Saturated(px) == ChromaAt(px) = 255
Neutral(px) == ChromaAt(px) = 0

\* two frames were stacked from scratch, each neutral or transparent
\* everywhere except a saturated pixel, at p in the earlier frame and at q
\* in the later one
MergeCase(p, q) ==
    /\ stack_result.outcome = "returned"
    /\ stack_base = NoImage
    /\ Len(stack_paths) = 2
    /\ p /= q
    /\ Saturated(stack_paths[1][p])
    /\ Saturated(stack_paths[2][q])
    /\ \A k \in Positions \ {p} : Neutral(stack_paths[1][k])
    /\ \A k \in Positions \ {q} : Neutral(stack_paths[2][k])

\* the composite has the earlier frame's pixel at p, the later frame's
\* pixel at q and a neutral or transparent pixel of the frames elsewhere
Merged(p, q) ==
    /\ stack_result.output[p] = stack_paths[1][p]
    /\ stack_result.output[q] = stack_paths[2][q]
    /\ \A k \in Positions \ {p, q} :
          /\ Neutral(stack_result.output[k])
          /\ stack_result.output[k] \in {stack_paths[1][k], stack_paths[2][k]}

\* C17: for an earlier frame A and a later frame B, each neutral or
\* transparent except a saturated pixel at p in A and at another position q
\* in B, the from-scratch composite has A's pixel at p, B's pixel at q and
\* the neutral or transparent pixel at every other position.
C17_StackingMerge ==
    \A p \in Positions : \A q \in Positions : MergeCase(p, q) => Merged(p, q)

\* C17 for frames whose pixels are opaque or fully transparent, as the
\* frames of test_build_day_stacks_creates_composite are
C17_OpaqueStackingMerge ==
    \A p \in Positions : \A q \in Positions :
        (/\ MergeCase(p, q)
         /\ \A n \in 1..2 : \A k \in Positions : stack_paths[n][k].a \in {0, 255})
        => Merged(p, q)

\* the frames of the test were stacked: red at p, blue at q, transparent
\* elsewhere
C17_OpaqueWitness ==
    /\ MergeCase(1, 2)
    /\ stack_paths[1] = <<Red, Transparent, Transparent>>
    /\ stack_paths[2] = <<Transparent, Blue, Transparent>>
    /\ stack_result.output = <<Red, Blue, Transparent>>

\* ---------------------------------------------------- claims C21 - C27
\* C21: when the last run discovered a tile, every day of a kept layer of
\* the previous manifest that the run did not discover for that layer is in
\* the new manifest under the same layer as it was, also when the run
\* discovered no tile of that layer.
C21_DayCarryForward ==
    (stack_runs >= 1 /\ Discovered /= {}) =>
        \A k \in 1..Len(KeptLayers) :
            \A od \in Range(KeptLayers[k].days) :
                InstantsOf(KeptLayers[k].name, od.date[1]) = {} =>
                    \E e \in Range(manifest_file.layers) :
                        /\ e.name = KeptLayers[k].name
                        /\ od \in Range(e.days)

\* the run discovered tiles of one layer only; the day the previous manifest
\* records for the other layer, and another day of the discovered layer,
\* are in the new manifest
C21_Witness ==
    /\ stack_runs = 2
    /\ \E l \in Layers :
          /\ Discovered /= {}
          /\ \A f \in Discovered : f[1] /= l
          /\ \E od \in MDays(prev_manifest, l) : od \in MDays(manifest_file, l)
    /\ \E l \in Layers : \E day \in Days :
          /\ InstantsOf(l, day) /= {}
          /\ \E od \in MDays(prev_manifest, l) :
                /\ od.date /= <<day>>
                /\ od \in MDays(manifest_file, l)

\* the tile entries the previous manifest records for an index of a day
RecordedTiles(l, day, i) ==
    UNION {{ot \in Range(od.tiles) : ot.index = i} :
              od \in {d \in MDays(prev_manifest, l) : d.date = <<day>>}}

\* include_existing of the last run for a day: the previous manifest records
\* an instant of the day that the run did not discover
IncludeExisting(l, day) == RecordedInstants(l, day) \ InstantsOf(l, day) /= {}

\* the count the manifest records for a tile index of a day is n
CountIs(l, day, i, n) ==
    \E nd \in MDays(manifest_file, l) :
        /\ nd.date = <<day>>
        /\ \E nt \in Range(nd.tiles) : nt.index = i /\ nt.count = n

\* C22: when the last run stacked a tile index from scratch (include_existing
\* false, or no entry of the index in the existing day, or the recorded
\* composite file no longer on disk), the count it recorded is the number of
\* frames it discovered for the index.
C22_ScratchCount ==
    \A l \in Layers : \A day \in Days : \A i \in TileIndices :
        ( /\ stack_runs >= 1
          /\ FramesOf(l, day, i) /= {}
          /\ \/ ~IncludeExisting(l, day)
             \/ RecordedTiles(l, day, i) = {}
             \/ \A ot \in RecordedTiles(l, day, i) : ot.path \notin daily_before )
        => CountIs(l, day, i, Cardinality(FramesOf(l, day, i)))

\* one frame was folded into an accumulating output: onto a base image, or
\* as the second of two frames stacked from scratch
Folded ==
    /\ stack_result.outcome = "returned"
    /\ \/ stack_base /= NoImage /\ Len(stack_paths) = 1
       \/ stack_base = NoImage /\ Len(stack_paths) = 2

\* the frame folded in, the image whose chroma is the base chroma, and the
\* accumulating output before the fold
FoldedFrame == stack_paths[Len(stack_paths)]
Reference == IF stack_base /= NoImage THEN stack_base ELSE stack_paths[1]
Accumulated == IF stack_base /= NoImage THEN stack_base ELSE FirstFrame(stack_paths[1])

AbsDiff(a, b) == IF a >= b THEN a - b ELSE b - a

\* C23: folding a non-first frame replaces a pixel by the frame's pixel
\* exactly where |chroma(frame) - chroma(base)| exceeds 18, in both
\* directions, and keeps the accumulated pixel where it is at most 18.
C23_AbsoluteChromaMask ==
    Folded =>
        \A k \in Positions :
            stack_result.output[k] =
                IF AbsDiff(ChromaAt(FoldedFrame[k]), ChromaAt(Reference[k])) > 18
                THEN FoldedFrame[k] ELSE Accumulated[k]

\* C23, amended: the pixel is replaced exactly where the frame's chroma
\* exceeds the base chroma by more than 18, and the accumulated pixel is
\* kept elsewhere, also where the base chroma exceeds the frame's.
C23_ChromaGainMask ==
    Folded =>
        \A k \in Positions :
            stack_result.output[k] =
                IF ChromaAt(FoldedFrame[k]) - ChromaAt(Reference[k]) > 18
                THEN FoldedFrame[k] ELSE Accumulated[k]

\* a frame folded onto a base: neutral where the base is red (kept), a tint
\* of chroma 19 on gray (replaced), a tint of chroma 10 on gray (kept)
C23_Witness ==
    /\ Folded
    /\ stack_base = <<Red, Gray, Gray>>
    /\ stack_paths = << <<Gray, Tint, Faint>> >>
    /\ stack_result.output = <<Red, Tint, Gray>>

\* C24: for start/end/period whose timestamps parse and whose period
\* _parse_duration accepts, also a period of zero length with start <= end,
\* _parse_time_value returns a list.
C24_ExpansionTerminates ==
    ( /\ parsed_times /= NotCalled
      /\ IsInterval(time_text)
      /\ WmsParseTime(<<time_text[1]>>).ok
      /\ WmsParseTime(<<time_text[3]>>).ok
      /\ _parse_duration(PartChars(<<time_text[5]>>)) /= None )
    => parsed_times.outcome = "returned"

\* C25: stacking frames A and B in one run and folding a later frame C onto
\* the saved composite in a second run gives the pixels of stacking A, B
\* and C in a single run.
C25_IncrementalEqualsScratch ==
    folded.outcome = "returned" =>
        folded.output = StackImagesPixels(stack_paths \o <<later_frame>>, NoImage).output

\* C26: in every manifest the runs write, the count of a tile is at most the
\* number of instants in the time list of its day.
C26_CountWithinInstants ==
    \A e \in Range(manifest_file.layers) :
        \A d \in Range(e.days) :
            \A t \in Range(d.tiles) : t.count <= Len(d.times)

\* C27: a run over the input directory of the run before it, merging against
\* the manifest that run wrote, returns the same layers: the same days, time
\* lists, tile entries and counts.
C27_RerunIdempotent ==
    reran => manifest_file.layers = prev_manifest.layers

====
